---------------------------- MODULE Spec2Model ----------------------------
(***************************************************************************)
(* State-machine model of il2-test-utils: the TestDirUtils scratch         *)
(* directory manager (src/src/testdir/mod.rs) over a small hierarchical    *)
(* filesystem with directories, regular files and symbolic links, the      *)
(* threads that use it, and the slice filler fill_with_seq                 *)
(* (src/src/samples/mod.rs).                                               *)
(*                                                                         *)
(* A std::path::Path is modelled by the list of components that            *)
(* Path::components() yields plus its absolute flag; the filesystem is a   *)
(* function from the absolute location of every existing entry to the      *)
(* entry.  The std::fs primitives the crate calls are modelled by what     *)
(* they do on POSIX (which links they follow, which errors they return).   *)
(***************************************************************************)
EXTENDS Integers, Sequences, FiniteSets, Bags, TLC

VARIABLES
    fs,        \* the host filesystem: absolute location -> entry
    handles,   \* bag of the live TestDirUtils values
    test_root, \* the base path the program passes to with_root
    last,      \* the call the last step completed, with its arguments and
               \* result ("none" when the step completed no call)
    thr,       \* per thread: where it is in its code, and its local variables
    mutex,     \* the process-wide lock of the tests
    seq        \* a call of fill_with_seq: its arguments, locals and outcome

vars == <<fs, handles, test_root, last, thr, mutex, seq>>

-----------------------------------------------------------------------------
(* Bounds of the model. *)

MaxHandles == 2   \* TestDirUtils values alive at the same time
MaxLinks == 2     \* symbolic links followed while resolving one path
MaxDepth == 2     \* components of a base path handed to with_root
MaxLen == 3       \* length of a slice handed to fill_with_seq
Width == 3        \* bits of the unsigned element type of that slice

Threads == {1, 2}
Labels == {"a"}
Names == {"f"}
Contents == {<<>>, <<104>>}

-----------------------------------------------------------------------------
(* Paths. *)

NoPath == [abs |-> FALSE, comps |-> <<>>]
RootPath == [abs |-> TRUE, comps |-> <<>>]
Cwd == <<"work">>

\* TestDirUtils::DEFAULT_TEST_DIR
DEFAULT_TEST_DIR == "test_dir.tmp"

\* The components of the string s from its i-th character on, cur being the
\* component read so far: "/" ends a component, repeated separators and "."
\* components name nothing.
RECURSIVE Components(_, _, _)
Components(s, i, cur) ==
    LET done == IF cur = "" \/ cur = "." THEN <<>> ELSE <<cur>>
    IN  IF i > Len(s) THEN done
        ELSE IF SubSeq(s, i, i) = "/" THEN done \o Components(s, i + 1, "")
        ELSE Components(s, i + 1, cur \o SubSeq(s, i, i))

\* Path::new: a path is absolute when it begins with a separator.
PathNew(s) ==
    [abs |-> Len(s) > 0 /\ SubSeq(s, 1, 1) = "/", comps |-> Components(s, 1, "")]

\* Path::join: an absolute argument replaces the receiver.
Join(base, rel) ==
    IF rel.abs THEN rel
    ELSE [abs |-> base.abs, comps |-> base.comps \o rel.comps]

IsPrefix(p, q) == Len(p) <= Len(q) /\ SubSeq(q, 1, Len(p)) = p

Parent(loc) == IF loc = <<>> THEN <<>> ELSE SubSeq(loc, 1, Len(loc) - 1)

-----------------------------------------------------------------------------
(* Filesystem entries. *)

DirNode == [kind |-> "dir", data |-> <<>>, target |-> NoPath]
FileNode(d) == [kind |-> "file", data |-> d, target |-> NoPath]
LinkNode(t) == [kind |-> "symlink", data |-> <<>>, target |-> t]

Put(f, loc, node) ==
    [p \in (DOMAIN f) \cup {loc} |-> IF p = loc THEN node ELSE f[p]]

Unlink(f, loc) == [p \in (DOMAIN f) \ {loc} |-> f[p]]

\* Removes loc and everything beneath it.
RemoveTree(f, loc) == [p \in {q \in DOMAIN f : ~IsPrefix(loc, q)} |-> f[p]]

Children(f, loc) == {p \in DOMAIN f : Len(p) = Len(loc) + 1 /\ IsPrefix(loc, p)}

\* Path resolution as the kernel does it: cur is a directory, rest the
\* components still to walk; a link in the middle of the path is always
\* followed, the last one only with follow.  The result names the location
\* the path denotes, which may not exist yet when only its last component is
\* missing.
RECURSIVE Walk(_, _, _, _, _)
Walk(f, cur, rest, follow, fuel) ==
    IF rest = <<>> THEN [err |-> "Ok", loc |-> cur]
    ELSE LET c == Head(rest)
             r == Tail(rest)
             nxt == Append(cur, c)
         IN  IF c = ".." THEN Walk(f, Parent(cur), r, follow, fuel)
             ELSE IF nxt \notin DOMAIN f
                  THEN IF r = <<>> THEN [err |-> "Ok", loc |-> nxt]
                       ELSE [err |-> "NotFound", loc |-> nxt]
             ELSE IF f[nxt].kind = "symlink" /\ (r # <<>> \/ follow)
                  THEN IF fuel = 0 THEN [err |-> "Loop", loc |-> nxt]
                       ELSE Walk(f, IF f[nxt].target.abs THEN <<>> ELSE cur,
                                 f[nxt].target.comps \o r, follow, fuel - 1)
             ELSE IF r = <<>> THEN [err |-> "Ok", loc |-> nxt]
             ELSE IF f[nxt].kind = "dir" THEN Walk(f, nxt, r, follow, fuel)
             ELSE [err |-> "NotADirectory", loc |-> nxt]

Resolve(f, path, follow) ==
    Walk(f, IF path.abs THEN <<>> ELSE Cwd, path.comps, follow, MaxLinks)


-----------------------------------------------------------------------------
(* The std::fs and std::path primitives the crate calls. *)

\* Path::exists: fs::metadata(path).is_ok(), following links.
exists(f, path) ==
    LET w == Resolve(f, path, TRUE)
    IN  w.err = "Ok" /\ w.loc \in DOMAIN f

\* Path::is_file: the entry the path leads to, following links, is a regular
\* file.
is_file(f, path) ==
    LET w == Resolve(f, path, TRUE)
    IN  w.err = "Ok" /\ w.loc \in DOMAIN f /\ f[w.loc].kind = "file"

\* Path::is_dir, following links.
is_dir(f, path) ==
    LET w == Resolve(f, path, TRUE)
    IN  w.err = "Ok" /\ w.loc \in DOMAIN f /\ f[w.loc].kind = "dir"

\* fs::remove_file: unlink(2), which removes a link itself and refuses a
\* directory.
remove_file(f, path) ==
    LET w == Resolve(f, path, FALSE)
    IN  IF w.err # "Ok" THEN [err |-> w.err, fs |-> f]
        ELSE IF w.loc \notin DOMAIN f THEN [err |-> "NotFound", fs |-> f]
        ELSE IF f[w.loc].kind = "dir" THEN [err |-> "IsADirectory", fs |-> f]
        ELSE [err |-> "Ok", fs |-> Unlink(f, w.loc)]

\* mkdir(2): does not follow a link in the last component.
mkdir(f, path) ==
    LET w == Resolve(f, path, FALSE)
    IN  IF w.err # "Ok" THEN [err |-> w.err, fs |-> f]
        ELSE IF w.loc \in DOMAIN f THEN [err |-> "AlreadyExists", fs |-> f]
        ELSE [err |-> "Ok", fs |-> Put(f, w.loc, DirNode)]

\* fs::create_dir_all (DirBuilder::create_dir_all): mkdir; when an ancestor
\* is missing create the parent first and mkdir again; a failed mkdir of a
\* path that is a directory counts as success.
RECURSIVE create_dir_all(_, _)
create_dir_all(f, path) ==
    IF path.comps = <<>> THEN
        IF path.abs /\ ~is_dir(f, path)
        THEN [err |-> "AlreadyExists", fs |-> f]
        ELSE [err |-> "Ok", fs |-> f]
    ELSE LET m == mkdir(f, path)
         IN  IF m.err = "Ok" THEN m
             ELSE IF m.err # "NotFound" THEN
                 IF is_dir(f, path) THEN [err |-> "Ok", fs |-> f] ELSE m
             ELSE LET up == create_dir_all(f,
                                [path EXCEPT !.comps = Parent(path.comps)])
                  IN  IF up.err # "Ok" THEN up
                      ELSE LET m2 == mkdir(up.fs, path)
                           IN  IF m2.err = "Ok" \/ ~is_dir(up.fs, path) THEN m2
                               ELSE [err |-> "Ok", fs |-> up.fs]

\* fs::write: File::create (O_CREAT | O_TRUNC, following links) and
\* write_all.
write(f, path, contents) ==
    LET w == Resolve(f, path, TRUE)
    IN  IF w.err # "Ok" THEN [err |-> w.err, fs |-> f]
        ELSE IF w.loc \notin DOMAIN f
             THEN [err |-> "Ok", fs |-> Put(f, w.loc, FileNode(contents))]
        ELSE IF f[w.loc].kind = "file"
             THEN [err |-> "Ok", fs |-> Put(f, w.loc, FileNode(contents))]
        ELSE IF f[w.loc].kind = "dir" THEN [err |-> "IsADirectory", fs |-> f]
        ELSE [err |-> "Other", fs |-> f]

\* fs::read: File::open (following links) and read_to_end.
read(f, path) ==
    LET w == Resolve(f, path, TRUE)
    IN  IF w.err # "Ok" THEN [err |-> w.err, data |-> <<>>]
        ELSE IF w.loc \notin DOMAIN f THEN [err |-> "NotFound", data |-> <<>>]
        ELSE IF f[w.loc].kind = "file"
             THEN [err |-> "Ok", data |-> f[w.loc].data]
        ELSE IF f[w.loc].kind = "dir"
             THEN [err |-> "IsADirectory", data |-> <<>>]
        ELSE [err |-> "Other", data |-> <<>>]

\* fs::read_dir: opendir(3), following links; the entries are the names in
\* the directory.
read_dir(f, path) ==
    LET w == Resolve(f, path, TRUE)
    IN  IF w.err # "Ok" THEN [err |-> w.err, entries |-> {}]
        ELSE IF w.loc \notin DOMAIN f THEN [err |-> "NotFound", entries |-> {}]
        ELSE IF f[w.loc].kind # "dir"
             THEN [err |-> "NotADirectory", entries |-> {}]
        ELSE [err |-> "Ok",
              entries |-> {p[Len(p)] : p \in Children(f, w.loc)}]

\* DirEntry::file_type: the type of the entry itself (lstat), links not
\* followed.
file_type(f, path) ==
    LET w == Resolve(f, path, FALSE)
    IN  IF w.err = "Ok" /\ w.loc \in DOMAIN f THEN f[w.loc].kind
        ELSE "gone"

\* fs::remove_dir_all: a symbolic link is unlinked, a directory is removed
\* with everything beneath it (links inside are not followed), anything else
\* is an error.
remove_dir_all(f, path) ==
    LET w == Resolve(f, path, FALSE)
    IN  IF w.err # "Ok" THEN [err |-> w.err, fs |-> f]
        ELSE IF w.loc \notin DOMAIN f THEN [err |-> "NotFound", fs |-> f]
        ELSE IF f[w.loc].kind = "symlink"
             THEN [err |-> "Ok", fs |-> Unlink(f, w.loc)]
        ELSE IF f[w.loc].kind = "dir"
             THEN [err |-> "Ok", fs |-> RemoveTree(f, w.loc)]
        ELSE [err |-> "NotADirectory", fs |-> f]

\* fs::remove_dir: rmdir(2), which removes an empty directory only.
remove_dir(f, path) ==
    LET w == Resolve(f, path, FALSE)
    IN  IF w.err # "Ok" THEN [err |-> w.err, fs |-> f]
        ELSE IF w.loc \notin DOMAIN f THEN [err |-> "NotFound", fs |-> f]
        ELSE IF f[w.loc].kind # "dir" THEN [err |-> "NotADirectory", fs |-> f]
        ELSE IF Children(f, w.loc) # {}
             THEN [err |-> "DirectoryNotEmpty", fs |-> f]
        ELSE [err |-> "Ok", fs |-> Unlink(f, w.loc)]

-----------------------------------------------------------------------------
(* TestDirUtils. *)

\* struct TestDirUtils { test_dir, delete_on_terminate }
TestDirUtils(dir, flag) == [test_dir |-> dir, delete_on_terminate |-> flag]

\* format!("{:?}", std::thread::current().id())
ThreadIdDebug(t) == "ThreadId(" \o ToString(t) \o ")"

\* TestDirUtils::create_unique_name_for_thread
create_unique_name_for_thread(name, t) == name \o "-" \o ThreadIdDebug(t)

\* The path with_root computes for thread t.
full_path_of(root, name, t) ==
    Join(root, PathNew(create_unique_name_for_thread(name, t)))

\* Mutant: a test directory that is already there is removed and made anew.
with_root_recreating(f, root, name, t) ==
    LET full_path == full_path_of(root, name, t)
        rm == IF is_file(f, full_path) THEN remove_file(f, full_path)
              ELSE IF is_dir(f, full_path) THEN remove_dir_all(f, full_path)
              ELSE [err |-> "Ok", fs |-> f]
        mk == IF ~exists(rm.fs, full_path) THEN create_dir_all(rm.fs, full_path)
              ELSE [err |-> "Ok", fs |-> rm.fs]
        value == TestDirUtils(full_path, TRUE)
    IN  IF rm.err # "Ok" THEN [err |-> rm.err, fs |-> rm.fs, value |-> value]
        ELSE [err |-> mk.err, fs |-> mk.fs, value |-> value]

\* TestDirUtils::with_root run by thread t: the filesystem it leaves, and Ok
\* with the new value or the I/O error of the failing call (value is then
\* what would have been returned).
with_root(f, root, name, t) ==
    LET full_path == full_path_of(root, name, t)
        rm == IF is_file(f, full_path) THEN remove_file(f, full_path)
              ELSE [err |-> "Ok", fs |-> f]
        mk == IF ~exists(rm.fs, full_path) THEN create_dir_all(rm.fs, full_path)
              ELSE [err |-> "Ok", fs |-> rm.fs]
        value == TestDirUtils(full_path, TRUE)
    IN  IF rm.err # "Ok" THEN [err |-> rm.err, fs |-> rm.fs, value |-> value]
        ELSE [err |-> mk.err, fs |-> mk.fs, value |-> value]

\* TestDirUtils::get_test_file_path
get_test_file_path(h, name) == Join(h.test_dir, PathNew(name))

\* Mutant: the file name is not joined to test_dir.
create_test_file_unjoined(f, h, name, contents) ==
    write(f, PathNew(name), contents)

\* TestDirUtils::create_test_file
create_test_file(f, h, name, contents) ==
    write(f, get_test_file_path(h, name), contents)

\* TestDirUtils::touch_test_file
touch_test_file(f, h, name) == create_test_file(f, h, name, <<>>)

\* Mutant: a failed read yields no bytes instead of the error.
read_test_file_or_default(f, h, name) ==
    [err |-> "Ok", data |-> read(f, Join(h.test_dir, PathNew(name))).data]

\* TestDirUtils::read_test_file
read_test_file(f, h, name) == read(f, get_test_file_path(h, name))

\* Mutant: the file is removed without asking whether it exists.
delete_test_file_unchecked(f, h, name) ==
    remove_file(f, Join(h.test_dir, PathNew(name)))

\* TestDirUtils::delete_test_file
delete_test_file(f, h, name) ==
    LET p == get_test_file_path(h, name)
    IN  IF exists(f, p) THEN remove_file(f, p) ELSE [err |-> "Ok", fs |-> f]

\* Mutant: subdirectories are skipped.
reset_entry_files_only(f, h, e) ==
    IF file_type(f, Join(h.test_dir, PathNew(e))) \in {"file", "symlink"}
    THEN remove_file(f, Join(h.test_dir, PathNew(e)))
    ELSE [err |-> "Ok", fs |-> f]

\* One iteration of the loop of reset, for the directory entry called e.
reset_entry(f, h, e) ==
    LET path == Join(h.test_dir, PathNew(e))
        file_type_ == file_type(f, path)
    IN  IF file_type_ = "file" \/ file_type_ = "symlink" THEN remove_file(f, path)
        ELSE IF file_type_ = "dir" THEN remove_dir_all(f, path)
        ELSE [err |-> "Ok", fs |-> f]

\* The loop of reset over the entries read_dir yields; the first error ends
\* it.  The order of the entries does not matter to the result while no
\* removal fails.
RECURSIVE reset_loop(_, _, _)
reset_loop(f, h, entries) ==
    IF entries = {} THEN [err |-> "Ok", fs |-> f]
    ELSE LET e == CHOOSE x \in entries : TRUE
             r == reset_entry(f, h, e)
         IN  IF r.err # "Ok" THEN r ELSE reset_loop(r.fs, h, entries \ {e})

\* TestDirUtils::reset
reset(f, h) ==
    LET rd == read_dir(f, h.test_dir)
    IN  IF rd.err # "Ok" THEN [err |-> rd.err, fs |-> f]
        ELSE reset_loop(f, h, rd.entries)

\* Mutant: the flag is not consulted.
drop_ignoring_flag(f, h) ==
    [err |-> IF remove_dir_all(f, h.test_dir).err = "Ok" THEN "Ok" ELSE "Panic",
     fs |-> remove_dir_all(f, h.test_dir).fs]

\* Drop for TestDirUtils: the unwrap turns a failed remove_dir_all into a
\* panic.
drop(f, h) ==
    IF h.delete_on_terminate
    THEN LET r == remove_dir_all(f, h.test_dir)
         IN  [err |-> IF r.err = "Ok" THEN "Ok" ELSE "Panic", fs |-> r.fs]
    ELSE [err |-> "Ok", fs |-> f]

-----------------------------------------------------------------------------
(* The filesystems a run may start from. *)

BaseDir == Append(Cwd, DEFAULT_TEST_DIR)
Target1 == Append(BaseDir, create_unique_name_for_thread("a", 1))
AbsPath(loc) == [abs |-> TRUE, comps |-> loc]

\* The root, the working directory, and a directory and a file outside the
\* test directory for links to point at.
CleanFS ==
    (<<>> :> DirNode) @@ (Cwd :> DirNode) @@ (<<"srv">> :> DirNode)
                      @@ (<<"srv", "data">> :> FileNode(<<1>>))

\* The path of thread 1's test directory is taken by a regular file.
FileInTheWayFS == CleanFS @@ (BaseDir :> DirNode) @@ (Target1 :> FileNode(<<7>>))

\* ... by a symbolic link to a directory, to a file, to nothing.
LinkToDirFS ==
    CleanFS @@ (BaseDir :> DirNode) @@ (Target1 :> LinkNode(AbsPath(<<"srv">>)))
LinkToFileFS ==
    CleanFS @@ (BaseDir :> DirNode)
              @@ (Target1 :> LinkNode(AbsPath(<<"srv", "data">>)))
DanglingLinkFS ==
    CleanFS @@ (BaseDir :> DirNode) @@ (Target1 :> LinkNode(AbsPath(<<"gone">>)))

\* Thread 1's test directory was left behind with a file, a link to a
\* directory and a non-empty subdirectory in it.
LeftoverFS ==
    CleanFS @@ (BaseDir :> DirNode) @@ (Target1 :> DirNode)
              @@ (Append(Target1, "old") :> FileNode(<<1>>))
              @@ (Append(Target1, "lnk") :> LinkNode(AbsPath(<<"srv">>)))
              @@ (Append(Target1, "sub") :> DirNode)
              @@ (Target1 \o <<"sub", "x">> :> FileNode(<<2>>))

\* The default base path itself is taken by a regular file.
BaseIsFileFS == CleanFS @@ (BaseDir :> FileNode(<<>>))

InitialFilesystems ==
    {CleanFS, FileInTheWayFS, LinkToDirFS, LinkToFileFS, DanglingLinkFS,
     LeftoverFS, BaseIsFileFS}

-----------------------------------------------------------------------------
(* The state machine: one action per public operation of TestDirUtils.  An  *)
(* action binds the outcome r of the operation once and publishes it.      *)

\* A completed call: the operation, the value it was called on, its
\* arguments, its result (res, and out for the bytes read), the kind of entry
\* its path named when it began (before; "gone" for none), the locations
\* of the entries it removed and, for with_root, the thread that ran it
\* (t; 0 for the other operations).
Call(op, h, name, data, res, out, before, removed) ==
    [op |-> op, h |-> h, name |-> name, data |-> data, res |-> res,
     out |-> out, before |-> before, removed |-> removed, t |-> 0]

Removed(f, g) == (DOMAIN f) \ (DOMAIN g)

One(h) == SetToBag({h})

NoCall ==
    Call("none", TestDirUtils(NoPath, FALSE), "", <<>>, "Ok", <<>>, "gone", {})

\* The values of thr, mutex and seq while the program runs no thread of its
\* own, takes no lock and fills no slice.
NoThreads == <<>>
NoMutex == [holder |-> 0, poisoned |-> FALSE]
NoFill == [pc |-> "none"]

\* The program uses the default test directory or the filesystem root as its
\* base path, and the path of thread 1's test directory may be free or taken
\* by any kind of entry.
Init ==
    /\ \/ test_root = PathNew(DEFAULT_TEST_DIR) /\ fs \in InitialFilesystems
       \/ test_root = RootPath /\ fs = CleanFS
    /\ handles = EmptyBag
    /\ last = NoCall
    /\ thr = NoThreads /\ mutex = NoMutex /\ seq = NoFill

\* TestDirUtils::with_root(test_root, name) on thread t (TestDirUtils::new
\* when test_root is the default).
WithRoot(t, name) ==
    /\ BagCardinality(handles) < MaxHandles
    /\ \E r \in {with_root(fs, test_root, name, t)} :
           /\ fs' = r.fs
           /\ handles' = IF r.err = "Ok" THEN handles (+) One(r.value)
                          ELSE handles
           /\ last' = [Call("with_root", r.value, name, <<>>, r.err, <<>>,
                            file_type(fs, r.value.test_dir), Removed(fs, r.fs))
                          EXCEPT !.t = t]
    /\ UNCHANGED <<test_root, thr, mutex, seq>>

SetDeleteOnTerminate(h, b) ==
    /\ BagIn(h, handles)
    /\ handles' = (handles (-) One(h)) (+) One([h EXCEPT !.delete_on_terminate = b])
    /\ last' = Call("set_delete_on_terminate", h, "", <<>>, "Ok", <<>>,
                    file_type(fs, h.test_dir), {})
    /\ UNCHANGED <<fs, test_root, thr, mutex, seq>>

CreateTestFile(h, name, contents) ==
    /\ BagIn(h, handles)
    /\ \E r \in {create_test_file(fs, h, name, contents)} :
           /\ fs' = r.fs
           /\ last' = Call("create_test_file", h, name, contents, r.err, <<>>,
                           file_type(fs, get_test_file_path(h, name)), Removed(fs, r.fs))
    /\ UNCHANGED <<handles, test_root, thr, mutex, seq>>

TouchTestFile(h, name) ==
    /\ BagIn(h, handles)
    /\ \E r \in {touch_test_file(fs, h, name)} :
           /\ fs' = r.fs
           /\ last' = Call("touch_test_file", h, name, <<>>, r.err, <<>>,
                           file_type(fs, get_test_file_path(h, name)), Removed(fs, r.fs))
    /\ UNCHANGED <<handles, test_root, thr, mutex, seq>>

ReadTestFile(h, name) ==
    /\ BagIn(h, handles)
    /\ \E r \in {read_test_file(fs, h, name)} :
           last' = Call("read_test_file", h, name, <<>>, r.err, r.data,
                        file_type(fs, get_test_file_path(h, name)), {})
    /\ UNCHANGED <<fs, handles, test_root, thr, mutex, seq>>

DeleteTestFile(h, name) ==
    /\ BagIn(h, handles)
    /\ \E r \in {delete_test_file(fs, h, name)} :
           /\ fs' = r.fs
           /\ last' = Call("delete_test_file", h, name, <<>>, r.err, <<>>,
                           file_type(fs, get_test_file_path(h, name)), Removed(fs, r.fs))
    /\ UNCHANGED <<handles, test_root, thr, mutex, seq>>

Reset(h) ==
    /\ BagIn(h, handles)
    /\ \E r \in {reset(fs, h)} :
           /\ fs' = r.fs
           /\ last' = Call("reset", h, "", <<>>, r.err, <<>>,
                           file_type(fs, h.test_dir), Removed(fs, r.fs))
    /\ UNCHANGED <<handles, test_root, thr, mutex, seq>>

\* The value goes out of scope.
Drop(h) ==
    /\ BagIn(h, handles)
    /\ \E r \in {drop(fs, h)} :
           /\ fs' = r.fs
           /\ last' = Call("drop", h, "", <<>>, r.err, <<>>,
                           file_type(fs, h.test_dir), Removed(fs, r.fs))
    /\ handles' = handles (-) One(h)
    /\ UNCHANGED <<test_root, thr, mutex, seq>>

Next ==
    \/ \E t \in Threads, name \in Labels : WithRoot(t, name)
    \/ \E h \in BagToSet(handles), b \in BOOLEAN : SetDeleteOnTerminate(h, b)
    \/ \E h \in BagToSet(handles), name \in Names, contents \in Contents :
          CreateTestFile(h, name, contents)
    \/ \E h \in BagToSet(handles), name \in Names : TouchTestFile(h, name)
    \/ \E h \in BagToSet(handles), name \in Names : ReadTestFile(h, name)
    \/ \E h \in BagToSet(handles), name \in Names : DeleteTestFile(h, name)
    \/ \E h \in BagToSet(handles) : Reset(h)
    \/ \E h \in BagToSet(handles) : Drop(h)

Spec == Init /\ [][Next]_vars

-----------------------------------------------------------------------------
(* The same program passing any &str as a file name: names with a          *)
(* separator, with a ".." component and absolute ones.                     *)

AnyNames == {"f", "../f", "/srv/data"}

InitNames ==
    /\ test_root = PathNew(DEFAULT_TEST_DIR)
    /\ fs = CleanFS
    /\ handles = EmptyBag
    /\ last = NoCall
    /\ thr = NoThreads /\ mutex = NoMutex /\ seq = NoFill

NextNames ==
    \/ \E t \in Threads, name \in Labels : WithRoot(t, name)
    \/ \E h \in BagToSet(handles), b \in BOOLEAN : SetDeleteOnTerminate(h, b)
    \/ \E h \in BagToSet(handles), name \in AnyNames, contents \in Contents :
          CreateTestFile(h, name, contents)
    \/ \E h \in BagToSet(handles), name \in AnyNames : TouchTestFile(h, name)
    \/ \E h \in BagToSet(handles), name \in AnyNames : ReadTestFile(h, name)
    \/ \E h \in BagToSet(handles), name \in AnyNames : DeleteTestFile(h, name)
    \/ \E h \in BagToSet(handles) : Reset(h)
    \/ \E h \in BagToSet(handles) : Drop(h)

SpecNames == InitNames /\ [][NextNames]_vars

-----------------------------------------------------------------------------
(* The same program handing with_root a base path of its choice: the       *)
(* default one, or the test directory of a value it holds.                 *)

\* The program takes the test directory of h for the base path of the values
\* it constructs next.
Rebase(h) ==
    /\ BagIn(h, handles)
    /\ Len(h.test_dir.comps) <= MaxDepth
    /\ test_root' = h.test_dir
    /\ last' = Call("rebase", h, "", <<>>, "Ok", <<>>,
                    file_type(fs, h.test_dir), {})
    /\ UNCHANGED <<fs, handles, thr, mutex, seq>>

NextNested ==
    \/ \E t \in Threads, name \in Labels : WithRoot(t, name)
    \/ \E h \in BagToSet(handles) : Rebase(h)
    \/ \E h \in BagToSet(handles), name \in Names, contents \in Contents :
          CreateTestFile(h, name, contents)
    \/ \E h \in BagToSet(handles) : Reset(h)
    \/ \E h \in BagToSet(handles) : Drop(h)

SpecNested == InitNames /\ [][NextNested]_vars

-----------------------------------------------------------------------------
(* Threads.  Every thread owns the values it constructed and drops them    *)
(* itself.  with_root is run one filesystem call at a time (is_file,       *)
(* remove_file, exists, and inside create_dir_all every mkdir and is_dir), *)
(* so that the calls of several threads interleave.  A panic unwinds the   *)
(* thread, dropping the values it owns, last declared first; a panic       *)
(* raised while the thread is unwinding aborts the process.                *)

Idle == [pc |-> "idle", name |-> "", d |-> 0, again |-> FALSE, err |-> "Ok",
         before |-> "gone", removed |-> {}, owned |-> <<>>]

\* The path a thread inside with_root works on, and its first d components
\* (the path the frame of create_dir_all at depth d was called with).
PathOfThread(t) == full_path_of(test_root, thr[t].name, t)
Ancestor(path, d) == [path EXCEPT !.comps = SubSeq(path.comps, 1, d)]

\* Values alive or under construction.
InUse ==
    BagCardinality(handles)
        + Cardinality({t \in Threads :
               thr[t].pc \in {"is_file", "remove_file", "exists", "mkdir",
                              "is_dir"}})

Running == \A t \in Threads : thr[t].pc # "aborted"

\* with_root returns res on thread t; on Ok the thread owns the new value.
Return(t, res, f) ==
    LET value == TestDirUtils(PathOfThread(t), TRUE)
    IN  /\ thr' = [thr EXCEPT ![t] =
                      [Idle EXCEPT !.owned = IF res = "Ok"
                                             THEN Append(thr[t].owned, value)
                                             ELSE thr[t].owned]]
        /\ handles' = IF res = "Ok" THEN handles (+) One(value) ELSE handles
        /\ last' = [Call("with_root", value, thr[t].name, <<>>, res, <<>>,
                         thr[t].before, thr[t].removed \cup Removed(fs, f))
                       EXCEPT !.t = t]

\* with_root is called: unique_test_dir and full_path are computed.
StartWithRoot(t, name) ==
    /\ thr[t].pc = "idle" /\ InUse < MaxHandles
    /\ thr' = [thr EXCEPT ![t] =
                  [@ EXCEPT !.pc = "is_file", !.name = name,
                            !.before = file_type(fs,
                                          full_path_of(test_root, name, t))]]
    /\ last' = NoCall
    /\ UNCHANGED <<fs, handles, test_root, mutex, seq>>

\* if full_path.is_file()
CheckIsFile(t) ==
    /\ thr[t].pc = "is_file"
    /\ thr' = [thr EXCEPT ![t].pc = IF is_file(fs, PathOfThread(t))
                                    THEN "remove_file" ELSE "exists"]
    /\ last' = NoCall
    /\ UNCHANGED <<fs, handles, test_root, mutex, seq>>

\* remove_file(full_path)?
DoRemoveFile(t) ==
    /\ thr[t].pc = "remove_file"
    /\ \E r \in {remove_file(fs, PathOfThread(t))} :
          /\ fs' = r.fs
          /\ IF r.err = "Ok"
             THEN /\ thr' = [thr EXCEPT ![t].pc = "exists",
                                        ![t].removed = Removed(fs, r.fs)]
                  /\ UNCHANGED handles /\ last' = NoCall
             ELSE Return(t, r.err, r.fs)
    /\ UNCHANGED <<test_root, mutex, seq>>

\* if !full_path.exists(): on to create_dir_all(full_path), else Ok.
CheckExists(t) ==
    /\ thr[t].pc = "exists"
    /\ IF exists(fs, PathOfThread(t))
       THEN Return(t, "Ok", fs)
       ELSE /\ thr' = [thr EXCEPT ![t].pc = "mkdir",
                                  ![t].d = Len(PathOfThread(t).comps),
                                  ![t].again = FALSE]
            /\ UNCHANGED handles /\ last' = NoCall
    /\ UNCHANGED <<fs, test_root, mutex, seq>>

\* The frame of create_dir_all at depth d returns Ok: to its caller's second
\* mkdir, or out of with_root.
FrameReturnsOk(t, f) ==
    IF thr[t].d = Len(PathOfThread(t).comps)
    THEN Return(t, "Ok", f)
    ELSE /\ thr' = [thr EXCEPT ![t].pc = "mkdir", ![t].d = @ + 1,
                               ![t].again = TRUE]
         /\ UNCHANGED handles /\ last' = NoCall

\* create_dir_all: self.inner.mkdir(path), first or again after the parent
\* was created.  NotFound at the first one goes on to the parent, which
\* returns Ok at once when it is the empty path.
DoMkdir(t) ==
    /\ thr[t].pc = "mkdir"
    /\ \E m \in {mkdir(fs, Ancestor(PathOfThread(t), thr[t].d))} :
          /\ fs' = m.fs
          /\ IF m.err = "Ok" THEN FrameReturnsOk(t, m.fs)
             ELSE IF m.err = "NotFound" /\ ~thr[t].again
             THEN /\ thr' = IF thr[t].d = 1 /\ ~PathOfThread(t).abs
                             THEN [thr EXCEPT ![t].again = TRUE]
                             ELSE [thr EXCEPT ![t].d = @ - 1]
                  /\ UNCHANGED handles /\ last' = NoCall
             ELSE /\ thr' = [thr EXCEPT ![t].pc = "is_dir", ![t].err = m.err]
                  /\ UNCHANGED handles /\ last' = NoCall
    /\ UNCHANGED <<test_root, mutex, seq>>

\* Mutant: a mkdir that failed is an error even when the directory is there.
mkdir_failed_strictly(f, path, e) == e

\* create_dir_all: Err(_) if path.is_dir() => Ok(()), Err(e) => Err(e)
mkdir_failed(f, path, e) == IF is_dir(f, path) THEN "Ok" ELSE e

\* create_dir_all after a failed mkdir: the frame returns what mkdir_failed
\* says.
CheckIsDir(t) ==
    /\ thr[t].pc = "is_dir"
    /\ \E res \in {mkdir_failed(fs, Ancestor(PathOfThread(t), thr[t].d),
                                 thr[t].err)} :
          IF res = "Ok" THEN FrameReturnsOk(t, fs) ELSE Return(t, res, fs)
    /\ UNCHANGED <<fs, test_root, mutex, seq>>

\* The sequence s without its i-th element.
Without(s, i) == SubSeq(s, 1, i - 1) \o SubSeq(s, i + 1, Len(s))

\* Thread t calls touch_test_file on a value it owns.
ThreadTouch(t, i, name) ==
    /\ thr[t].pc = "idle" /\ i \in 1..Len(thr[t].owned)
    /\ \E r \in {touch_test_file(fs, thr[t].owned[i], name)} :
          /\ fs' = r.fs
          /\ last' = Call("touch_test_file", thr[t].owned[i], name, <<>>,
                          r.err, <<>>,
                          file_type(fs, get_test_file_path(thr[t].owned[i],
                                                           name)),
                          Removed(fs, r.fs))
    /\ UNCHANGED <<handles, test_root, thr, mutex, seq>>

\* A value thread t owns goes out of scope or is handed to drop(); the
\* panic of a failed delete starts the unwinding of the thread.
ThreadDrop(t, i) ==
    /\ thr[t].pc = "idle" /\ i \in 1..Len(thr[t].owned)
    /\ \E r \in {drop(fs, thr[t].owned[i])} :
          /\ fs' = r.fs
          /\ last' = Call("drop", thr[t].owned[i], "", <<>>, r.err, <<>>,
                          file_type(fs, thr[t].owned[i].test_dir),
                          Removed(fs, r.fs))
          /\ thr' = [thr EXCEPT ![t].owned = Without(@, i),
                                ![t].pc = IF r.err = "Panic" THEN "unwinding"
                                          ELSE @]
    /\ handles' = handles (-) One(thr[t].owned[i])
    /\ UNCHANGED <<test_root, mutex, seq>>

\* The code of the test that runs on thread t panics (a failed assert! or
\* unwrap) while it owns values.
ThreadPanics(t) ==
    /\ thr[t].pc = "idle" /\ thr[t].owned # <<>>
    /\ thr' = [thr EXCEPT ![t].pc = "unwinding"]
    /\ last' = NoCall
    /\ UNCHANGED <<fs, handles, test_root, mutex, seq>>

\* Unwinding drops the value declared last; when none is left the thread has
\* ended.  A drop that panics now aborts the process: no thread runs on.
Unwind(t) ==
    /\ thr[t].pc = "unwinding"
    /\ IF thr[t].owned = <<>>
       THEN /\ thr' = [thr EXCEPT ![t].pc = "ended"]
            /\ UNCHANGED <<fs, handles>> /\ last' = NoCall
       ELSE \E r \in {drop(fs, thr[t].owned[Len(thr[t].owned)])} :
              /\ fs' = r.fs
              /\ last' = Call("drop", thr[t].owned[Len(thr[t].owned)], "",
                              <<>>, r.err, <<>>,
                              file_type(fs, thr[t].owned[Len(thr[t].owned)]
                                                .test_dir),
                              Removed(fs, r.fs))
              /\ handles' = handles (-) One(thr[t].owned[Len(thr[t].owned)])
              /\ thr' = IF r.err = "Panic"
                         THEN [u \in Threads |->
                                 [thr[u] EXCEPT
                                    !.pc = "aborted",
                                    !.owned = IF u = t
                                              THEN Without(@, Len(@)) ELSE @]]
                         ELSE [thr EXCEPT ![t].owned = Without(@, Len(@))]
    /\ UNCHANGED <<test_root, mutex, seq>>

BaseOnlyFS == CleanFS @@ (BaseDir :> DirNode)

\* The threads start with nothing; the base directory may be missing, and
\* the path of thread 1's test directory may be free, a directory left
\* behind, or taken by a file or by a link to a file or to a directory.
InitThreads ==
    /\ test_root = PathNew(DEFAULT_TEST_DIR)
    /\ fs \in {CleanFS, BaseOnlyFS, FileInTheWayFS, LinkToFileFS, LinkToDirFS,
               LeftoverFS}
    /\ handles = EmptyBag
    /\ last = NoCall
    /\ thr = [t \in Threads |-> Idle]
    /\ mutex = NoMutex /\ seq = NoFill

NextThreads ==
    \/ \E t \in Threads, name \in Labels : StartWithRoot(t, name)
    \/ \E t \in Threads : CheckIsFile(t)
    \/ \E t \in Threads : DoRemoveFile(t)
    \/ \E t \in Threads : CheckExists(t)
    \/ \E t \in Threads : DoMkdir(t)
    \/ \E t \in Threads : CheckIsDir(t)
    \/ \E t \in Threads, i \in 1..MaxHandles, name \in Names :
          ThreadTouch(t, i, name)
    \/ \E t \in Threads, i \in 1..MaxHandles : ThreadDrop(t, i)
    \/ \E t \in Threads : ThreadPanics(t)
    \/ \E t \in Threads : Unwind(t)

SpecThreads == InitThreads /\ [][NextThreads]_vars

-----------------------------------------------------------------------------
(* Global serialization: the tests of src/src/testdir/tests.rs.  Every     *)
(* thread runs the body of test_testdirutils_new (test_testdirutils_       *)
(* with_path has the same body), one statement at a time, holding the      *)
(* guard of get_local_test_lock from its first statement to the end of its *)
(* scope.  The tests call TestDirUtils::new() without a label, a           *)
(* constructor that mod.rs does not have: it is modelled from the          *)
(* specification of the shared-directory variant.                          *)

\* Mutant: the lock is taken whether it is held or not.
lock_unguarded(m, t) == IF m.poisoned THEN "Poisoned" ELSE "Acquired"

\* MUTEX.as_ref().unwrap().lock(): the caller waits while another thread
\* holds the mutex, and gets an error when a holder panicked.
lock(m, t) ==
    IF m.holder # 0 THEN "Blocked"
    ELSE IF m.poisoned THEN "Poisoned"
    ELSE "Acquired"

\* The constructor of the shared-directory variant: the target is the base
\* path itself; a file or link there is deleted, and the directory is
\* created when it is missing.
new_shared(f) ==
    LET target == PathNew(DEFAULT_TEST_DIR)
        rm == IF file_type(f, target) \in {"file", "symlink"}
              THEN remove_file(f, target)
              ELSE [err |-> "Ok", fs |-> f]
        mk == IF ~is_dir(rm.fs, target) THEN create_dir_all(rm.fs, target)
              ELSE [err |-> "Ok", fs |-> rm.fs]
    IN  IF rm.err # "Ok" THEN [err |-> rm.err, fs |-> rm.fs, target |-> target]
        ELSE [err |-> mk.err, fs |-> mk.fs, target |-> target]

\* The cleanup at the head of the test: remove whatever is at the default
\* path.
cleanup(f) ==
    LET test_dir_path == PathNew(DEFAULT_TEST_DIR)
    IN  IF exists(f, test_dir_path)
        THEN IF is_dir(f, test_dir_path) THEN remove_dir_all(f, test_dir_path)
             ELSE remove_file(f, test_dir_path)
        ELSE [err |-> "Ok", fs |-> f]

AtLock == [pc |-> "lock", guard |-> FALSE, owned |-> <<>>]

\* The statement after the one at pc.
After(pc) ==
    CASE pc = "cleanup" -> "new1"
      [] pc = "new1" -> "assert1"
      [] pc = "assert1" -> "drop1"
      [] pc = "drop1" -> "remove_dir"
      [] pc = "remove_dir" -> "write"
      [] pc = "write" -> "new2"
      [] pc = "new2" -> "assert2"
      [] pc = "assert2" -> "drop2"
      [] pc = "drop2" -> "unlock"

\* Thread t goes on to its next statement, or panics because an unwrap or
\* an assert! failed.
Proceed(t, ok) ==
    [thr EXCEPT ![t].pc = IF ok THEN After(@) ELSE "unwinding"]

\* let _test_lock = get_local_test_lock();  The unwrap of a poisoned lock
\* panics before the thread has any local.
TestLock(t) ==
    /\ thr[t].pc = "lock"
    /\ \E got \in {lock(mutex, t)} :
          /\ got # "Blocked"
          /\ IF got = "Acquired"
             THEN /\ mutex' = [mutex EXCEPT !.holder = t]
                  /\ thr' = [thr EXCEPT ![t].pc = "cleanup", ![t].guard = TRUE]
             ELSE /\ thr' = [thr EXCEPT ![t].pc = "ended"]
                  /\ UNCHANGED mutex
    /\ last' = NoCall
    /\ UNCHANGED <<fs, handles, test_root, seq>>

\* // Cleanup
TestCleanup(t) ==
    /\ thr[t].pc = "cleanup"
    /\ \E r \in {cleanup(fs)} :
          fs' = r.fs /\ thr' = Proceed(t, r.err = "Ok")
    /\ last' = NoCall
    /\ UNCHANGED <<handles, test_root, mutex, seq>>

\* let test_dir = TestDirUtils::new();  Whether the value deletes its
\* directory when dropped is either way.
TestNew(t, flag) ==
    /\ thr[t].pc \in {"new1", "new2"}
    /\ \E r \in {new_shared(fs)} :
          LET value == TestDirUtils(r.target, flag)
          IN  /\ fs' = r.fs
              /\ thr' = IF r.err = "Ok"
                         THEN [Proceed(t, TRUE) EXCEPT ![t].owned = <<value>>]
                         ELSE Proceed(t, FALSE)
              /\ handles' = IF r.err = "Ok" THEN handles (+) One(value)
                             ELSE handles
              /\ last' = [Call("new", value, "", <<>>, r.err, <<>>,
                               file_type(fs, r.target), Removed(fs, r.fs))
                             EXCEPT !.t = t]
    /\ UNCHANGED <<test_root, mutex, seq>>

\* assert!(test_dir_path.is_dir());
TestAssert(t) ==
    /\ thr[t].pc \in {"assert1", "assert2"}
    /\ thr' = Proceed(t, is_dir(fs, PathNew(DEFAULT_TEST_DIR)))
    /\ last' = NoCall
    /\ UNCHANGED <<fs, handles, test_root, mutex, seq>>

\* drop(test_dir);
TestDrop(t) ==
    /\ thr[t].pc \in {"drop1", "drop2"}
    /\ \E r \in {drop(fs, thr[t].owned[1])} :
          /\ fs' = r.fs
          /\ thr' = [Proceed(t, r.err = "Ok") EXCEPT ![t].owned = <<>>]
          /\ last' = [Call("drop", thr[t].owned[1], "", <<>>, r.err, <<>>,
                           file_type(fs, thr[t].owned[1].test_dir),
                           Removed(fs, r.fs))
                         EXCEPT !.t = t]
    /\ handles' = handles (-) One(thr[t].owned[1])
    /\ UNCHANGED <<test_root, mutex, seq>>

\* remove_dir(test_dir_path).unwrap();
TestRemoveDir(t) ==
    /\ thr[t].pc = "remove_dir"
    /\ \E r \in {remove_dir(fs, PathNew(DEFAULT_TEST_DIR))} :
          fs' = r.fs /\ thr' = Proceed(t, r.err = "Ok")
    /\ last' = NoCall
    /\ UNCHANGED <<handles, test_root, mutex, seq>>

\* write(test_dir_path, b"").unwrap();
TestWrite(t) ==
    /\ thr[t].pc = "write"
    /\ \E r \in {write(fs, PathNew(DEFAULT_TEST_DIR), <<>>)} :
          fs' = r.fs /\ thr' = Proceed(t, r.err = "Ok")
    /\ last' = NoCall
    /\ UNCHANGED <<handles, test_root, mutex, seq>>

\* The end of the test: _test_lock goes out of scope.
TestUnlock(t) ==
    /\ thr[t].pc = "unlock"
    /\ mutex' = [mutex EXCEPT !.holder = 0]
    /\ thr' = [thr EXCEPT ![t].pc = "passed", ![t].guard = FALSE]
    /\ last' = NoCall
    /\ UNCHANGED <<fs, handles, test_root, seq>>

\* Unwinding drops test_dir when it is alive, then _test_lock, which
\* poisons the mutex; a drop of test_dir that panics aborts the process.
TestUnwind(t) ==
    /\ thr[t].pc = "unwinding"
    /\ IF thr[t].owned # <<>>
       THEN \E r \in {drop(fs, thr[t].owned[1])} :
              /\ fs' = r.fs
              /\ handles' = handles (-) One(thr[t].owned[1])
              /\ thr' = IF r.err = "Panic"
                         THEN [u \in Threads |->
                                 [thr[u] EXCEPT !.pc = "aborted"]]
                         ELSE [thr EXCEPT ![t].owned = <<>>]
              /\ last' = [Call("drop", thr[t].owned[1], "", <<>>, r.err, <<>>,
                               file_type(fs, thr[t].owned[1].test_dir),
                               Removed(fs, r.fs))
                             EXCEPT !.t = t]
              /\ UNCHANGED mutex
       ELSE /\ IF thr[t].guard
               THEN /\ mutex' = [holder |-> 0, poisoned |-> TRUE]
                    /\ thr' = [thr EXCEPT ![t].guard = FALSE]
               ELSE /\ thr' = [thr EXCEPT ![t].pc = "ended"]
                    /\ UNCHANGED mutex
            /\ last' = NoCall
            /\ UNCHANGED <<fs, handles>>
    /\ UNCHANGED <<test_root, seq>>

\* The default path is free, a file, or a directory, empty or with what an
\* earlier run left in it.
InitLock ==
    /\ test_root = PathNew(DEFAULT_TEST_DIR)
    /\ fs \in InitialFilesystems \cup {BaseOnlyFS}
    /\ handles = EmptyBag
    /\ last = NoCall
    /\ thr = [t \in Threads |-> AtLock]
    /\ mutex = NoMutex /\ seq = NoFill

NextLock ==
    \/ \E t \in Threads : TestLock(t)
    \/ \E t \in Threads : TestCleanup(t)
    \/ \E t \in Threads, flag \in BOOLEAN : TestNew(t, flag)
    \/ \E t \in Threads : TestAssert(t)
    \/ \E t \in Threads : TestDrop(t)
    \/ \E t \in Threads : TestRemoveDir(t)
    \/ \E t \in Threads : TestWrite(t)
    \/ \E t \in Threads : TestUnlock(t)
    \/ \E t \in Threads : TestUnwind(t)

SpecLock == InitLock /\ [][NextLock]_vars

-----------------------------------------------------------------------------
(* samples::fill_with_seq on a slice of unsigned integers of Width bits,   *)
(* one action per iteration of its loop.  A build with overflow checks     *)
(* (debug) panics on an addition that overflows, a build without (release) *)
(* wraps.                                                                  *)

TypeMax == 2 ^ Width - 1

\* curr += inc
add_assign(curr, inc, overflow_checks) ==
    IF curr + inc <= TypeMax THEN [panic |-> FALSE, value |-> curr + inc]
    ELSE IF overflow_checks THEN [panic |-> TRUE, value |-> curr]
    ELSE [panic |-> FALSE, value |-> (curr + inc) % (2 ^ Width)]

\* The call fill_with_seq(target, initial, inc) after `let mut curr =
\* initial`: every slice up to MaxLen elements, every initial and inc of the
\* type, in either build.
InitSeq ==
    /\ fs = CleanFS /\ handles = EmptyBag
    /\ test_root = PathNew(DEFAULT_TEST_DIR) /\ last = NoCall
    /\ thr = NoThreads /\ mutex = NoMutex
    /\ \E n \in 0..MaxLen, initial \in 0..TypeMax, inc \in 0..TypeMax,
          overflow_checks \in BOOLEAN :
          seq = [pc |-> "loop", target |-> [k \in 1..n |-> 0],
                 initial |-> initial, inc |-> inc, curr |-> initial,
                 done |-> 0, overflow_checks |-> overflow_checks]

\* One iteration of `for t in target`: *t = curr; curr += inc.
FillNext ==
    /\ seq.pc = "loop" /\ seq.done < Len(seq.target)
    /\ \E a \in {add_assign(seq.curr, seq.inc, seq.overflow_checks)} :
          seq' = [seq EXCEPT !.target[seq.done + 1] = seq.curr,
                             !.curr = a.value,
                             !.done = IF a.panic THEN @ ELSE @ + 1,
                             !.pc = IF a.panic THEN "panic" ELSE @]
    /\ UNCHANGED <<fs, handles, test_root, last, thr, mutex>>

\* The loop is over and fill_with_seq returns.
FillReturn ==
    /\ seq.pc = "loop" /\ seq.done = Len(seq.target)
    /\ seq' = [seq EXCEPT !.pc = "returned"]
    /\ UNCHANGED <<fs, handles, test_root, last, thr, mutex>>

NextSeq == FillNext \/ FillReturn

SpecSeq == InitSeq /\ [][NextSeq]_vars

-----------------------------------------------------------------------------
(* Vocabulary of the properties. *)

Live == BagToSet(handles)

\* The number of live values whose test_dir is dir.
Owners(dir) ==
    BagCardinality([h \in {g \in Live : g.test_dir = dir} |-> handles[h]])

\* The entries of f at or beneath the location the path leads to.
Beneath(f, path) ==
    LET w == Resolve(f, path, TRUE)
    IN  IF w.err = "Ok" THEN {p \in DOMAIN f : IsPrefix(w.loc, p)} ELSE {}

-----------------------------------------------------------------------------
(* Properties. *)

\* C1: with_root with the filesystem root as its base path fails by a panic
\* and leaves the filesystem as it was before the call.
C1_RootIsRejected ==
    [][(last'.op = "with_root" /\ test_root = RootPath)
          => (last'.res = "Panic" /\ fs' = fs)]_vars

\* The value h was constructed by thread t.
ConstructedBy(h, t) ==
    \E name \in Labels : h.test_dir = full_path_of(test_root, name, t)

TwoThreads == {t \in Threads \X Threads : t[1] # t[2]}
ManyLabels == {"", "a", "b", "a-ThreadId(1)"}
ManyRoots == {PathNew(DEFAULT_TEST_DIR), RootPath, PathNew("")}

\* C2: values constructed by two different threads have different test_dir,
\* for every label and base path, and a file written through one of them
\* is not what the other reads under the same name: create_test_file on one
\* leaves the result of read_test_file on the other as it was.
C2_ThreadsAreIsolated ==
    /\ \A t \in TwoThreads, n1 \in ManyLabels, n2 \in ManyLabels,
          root \in ManyRoots :
          full_path_of(root, n1, t[1]) # full_path_of(root, n2, t[2])
    /\ [](\A t \in TwoThreads :
             \A h \in {x \in Live : ConstructedBy(x, t[1])},
                g \in {x \in Live : ConstructedBy(x, t[2])} :
                h.test_dir # g.test_dir)
    /\ [][last'.op \in {"create_test_file", "touch_test_file"} =>
             \A t \in TwoThreads :
                ConstructedBy(last'.h, t[1]) =>
                   \A g \in {x \in Live : ConstructedBy(x, t[2])} :
                      read_test_file(fs', g, last'.name)
                          = read_test_file(fs, g, last'.name)]_vars

\* C3: no two live values have the same test_dir.
C3_RootsAreUnique == \A h \in Live : Owners(h.test_dir) = 1

\* C4: the test_dir of every live value is an existing directory.
C4_RootExists == \A h \in Live : is_dir(fs, h.test_dir)

\* C5: a drop with delete_on_terminate set leaves nothing at test_dir nor
\* beneath it; a drop with the flag cleared leaves the filesystem, test_dir
\* and its contents included, exactly as it was just before; and the flag
\* is set after construction.
C5_DropFollowsFlag ==
    /\ []((last.op = "with_root" /\ last.res = "Ok") =>
             BagIn(TestDirUtils(last.h.test_dir, TRUE), handles))
    /\ [][last'.op = "drop" =>
            IF last'.h.delete_on_terminate
            THEN /\ file_type(fs', last'.h.test_dir) = "gone"
                 /\ Beneath(fs', last'.h.test_dir) = {}
            ELSE fs' = fs]_vars

\* A value whose flag was cleared has been dropped and its directory is
\* there with a file in it.
C5_Witness ==
    /\ last.op = "drop" /\ ~last.h.delete_on_terminate /\ last.res = "Ok"
    /\ is_dir(fs, last.h.test_dir)
    /\ \E name \in Names : read_test_file(fs, last.h, name).err = "Ok"

\* C6: read_test_file right after a successful create_test_file of the
\* same name on the same value returns exactly the bytes written, whether
\* the file was there before or not.
C6_WriteThenRead ==
    [][(/\ last.op = "create_test_file" /\ last.res = "Ok"
        /\ last'.op = "read_test_file"
        /\ last'.h = last.h /\ last'.name = last.name)
          => (last'.res = "Ok" /\ last'.out = last.data)]_vars

\* A written file has been read back.
C6_Witness ==
    /\ last.op = "read_test_file" /\ last.res = "Ok" /\ last.out = <<104>>

\* C7: delete_test_file of a name with no entry succeeds and leaves the
\* filesystem unchanged, and after a successful delete_test_file a second
\* one of the same name succeeds and changes nothing.
C7_DeleteIsIdempotent ==
    [][last'.op = "delete_test_file" =>
          /\ last'.before = "gone" => (last'.res = "Ok" /\ fs' = fs)
          /\ last'.res = "Ok" =>
                delete_test_file(fs', last'.h, last'.name)
                    = [err |-> "Ok", fs |-> fs']]_vars

\* delete_test_file was called for a name with no entry in an existing
\* test directory.
C7_Witness ==
    /\ last.op = "delete_test_file" /\ last.res = "Ok" /\ last.before = "gone"
    /\ last.removed = {} /\ is_dir(fs, last.h.test_dir)

\* C8: read_test_file of a name with no entry fails with NotFound, as it
\* does right after a successful delete_test_file of that name, and no
\* read_test_file changes the filesystem.
C8_ReadOfMissingFile ==
    /\ [][last'.op = "read_test_file" =>
            /\ fs' = fs
            /\ last'.before = "gone" => last'.res = "NotFound"]_vars
    /\ [][(last'.op = "delete_test_file" /\ last'.res = "Ok") =>
            read_test_file(fs', last'.h, last'.name).err = "NotFound"]_vars
    /\ [][(/\ last.op = "delete_test_file" /\ last.res = "Ok"
           /\ last'.op = "read_test_file"
           /\ last'.h = last.h /\ last'.name = last.name)
             => last'.res = "NotFound"]_vars

\* A read of a name with no entry in an existing test directory failed.
C8_Witness ==
    /\ last.op = "read_test_file" /\ last.res = "NotFound"
    /\ last.before = "gone" /\ is_dir(fs, last.h.test_dir)

\* C9: after a successful reset test_dir is still a directory and nothing is
\* left beneath it.
C9_ResetEmpties ==
    (last.op = "reset" /\ last.res = "Ok") =>
        /\ is_dir(fs, last.h.test_dir)
        /\ read_dir(fs, last.h.test_dir) = [err |-> "Ok", entries |-> {}]
        /\ Cardinality(Beneath(fs, last.h.test_dir)) = 1

\* A reset has removed the left-over file, link and subdirectory with the
\* file in it, and nothing outside the test directory.
C9_Witness ==
    /\ last.op = "reset" /\ last.res = "Ok"
    /\ last.removed = {Append(Target1, "old"), Append(Target1, "lnk"),
                        Append(Target1, "sub"), Target1 \o <<"sub", "x">>}
    /\ <<"srv", "data">> \in DOMAIN fs

\* C10: with_root succeeds when its path is taken by a regular file or by a
\* symbolic link of any kind, and after a successful with_root test_dir is a
\* directory itself, not a link to one.
C10_CollisionIsReplaced ==
    last.op = "with_root" =>
        /\ last.before \in {"file", "symlink"} => last.res = "Ok"
        /\ last.res = "Ok" => file_type(fs, last.h.test_dir) = "dir"

\* C11: TestDirUtils::new while the default base path is a regular file
\* succeeds and leaves the base path a directory.
C11_BaseFileIsReplaced ==
    [][(/\ last'.op = "with_root" /\ test_root = PathNew(DEFAULT_TEST_DIR)
        /\ file_type(fs, test_root) = "file")
          => (last'.res = "Ok" /\ is_dir(fs', test_root))]_vars

RootOf(f, h) == Resolve(f, h.test_dir, TRUE).loc
Outside(f, h) == {p \in DOMAIN f : ~IsPrefix(RootOf(f, h), p)}

\* C13: create_test_file, touch_test_file, read_test_file and
\* delete_test_file work on a path beneath the test directory of their value
\* whatever the name is: the path the name is joined to leads to a location
\* beneath test_dir, and the entries outside test_dir are after the call what
\* they were before.
C13_FileOpsStayBeneathRoot ==
    [][last'.op \in {"create_test_file", "touch_test_file", "read_test_file",
                     "delete_test_file"} =>
          /\ IsPrefix(RootOf(fs, last'.h),
                      Resolve(fs, get_test_file_path(last'.h, last'.name),
                              TRUE).loc)
          /\ Outside(fs', last'.h) = Outside(fs, last'.h)
          /\ \A p \in Outside(fs, last'.h) : fs'[p] = fs[p]]_vars

\* C15: a drop deletes test_dir at most once: whenever a drop with
\* delete_on_terminate set runs, test_dir is there for it to delete and the
\* delete succeeds; no drop is left to delete what an earlier drop already
\* deleted.
C15_NoDoubleDelete ==
    [][(last'.op = "drop" /\ last'.h.delete_on_terminate)
          => (last'.before # "gone" /\ last'.res = "Ok"
              /\ last'.removed # {})]_vars

\* The base path the test directory of h was joined to, and the entries of
\* f that are not at or beneath the path test_dir itself.
BaseOf(h) == [h.test_dir EXCEPT !.comps = Parent(@)]
Elsewhere(f, h) ==
    {p \in DOMAIN f : ~IsPrefix(Resolve(f, h.test_dir, FALSE).loc, p)}

\* C17: a reset or a drop of a value leaves its base directory a directory,
\* leaves every entry that is not beneath its test_dir as it was, and leaves
\* the test directory of every other live value, with the entries and
\* contents beneath it, as it was.
C17_ResetAndDropAreLocal ==
    [][last'.op \in {"reset", "drop"} =>
          /\ is_dir(fs', BaseOf(last'.h))
          /\ Elsewhere(fs', last'.h) = Elsewhere(fs, last'.h)
          /\ \A p \in Elsewhere(fs, last'.h) : fs'[p] = fs[p]
          /\ \A g \in BagToSet(handles (-) One(last'.h)) :
                /\ Beneath(fs', g.test_dir) = Beneath(fs, g.test_dir)
                /\ \A p \in Beneath(fs, g.test_dir) : fs'[p] = fs[p]]_vars

\* C19: when initial + i * inc is a value of the element type for every
\* index i of the slice, fill_with_seq does not fail on an overflow, and
\* when it has returned target[i] is initial + i * inc for every index i
\* (the k-th element, counted from 1, holds initial + (k - 1) * inc).
C19_SeqFillsRepresentable ==
    (/\ seq.pc # "none"
     /\ \A k \in 1..Len(seq.target) :
           seq.initial + (k - 1) * seq.inc <= TypeMax)
        => /\ seq.pc # "panic"
           /\ seq.pc = "returned" =>
                 \A k \in 1..Len(seq.target) :
                    seq.target[k] = seq.initial + (k - 1) * seq.inc

\* C14: a drop whose remove_dir_all fails reports the failure (it panics),
\* leaves the filesystem, the directories and files of the other values
\* included, as it was, and stops no other value from being used and
\* dropped: the process is never aborted while a value is alive.
C14_FailedDropIsContained ==
    /\ [][(/\ last'.op = "drop" /\ last'.h.delete_on_terminate
           /\ remove_dir_all(fs, last'.h.test_dir).err # "Ok")
             => (last'.res = "Panic" /\ fs' = fs)]_vars
    /\ [](~Running => handles = EmptyBag)

\* C18: every with_root of a thread, however its filesystem calls interleave
\* with those of the other threads' with_root and drop, returns Ok, and
\* when it returns test_dir is a directory that no value of another thread
\* has for its test_dir.
C18_ConcurrentConstructionsSucceed ==
    last.op = "with_root" =>
        /\ last.res = "Ok"
        /\ is_dir(fs, last.h.test_dir)
        /\ \E i \in 1..Len(thr[last.t].owned) :
              thr[last.t].owned[i] = last.h
        /\ \A u \in Threads \ {last.t} : \A i \in 1..Len(thr[u].owned) :
              thr[u].owned[i].test_dir # last.h.test_dir

\* A with_root has returned on one thread while another thread, whose mkdir
\* of the base directory failed because the directory had just been made,
\* is still inside create_dir_all.
C18_Witness ==
    /\ last.op = "with_root" /\ last.res = "Ok" /\ last.before = "gone"
    /\ \E u \in Threads \ {last.t} :
          thr[u].pc = "mkdir" /\ thr[u].err = "AlreadyExists"


=============================================================================
